---- MODULE Spec2Model ----
(***************************************************************************)
(* Model of app_finance.py: a Streamlit ledger over a backing store (a     *)
(* Google sheet in cloud mode, finance_data.csv in local mode) that offers *)
(* only "read all", "replace all" and "append one row".                    *)
(*                                                                         *)
(* Every user interaction reruns the script: it first loads the settings   *)
(* and the ledger (lines 372-373, the ledger through the st.cache_data     *)
(* cache of load_data), then runs the handler of the button pressed. The   *)
(* sessions of one server run in threads of their own and share the cache, *)
(* so another session's interaction can fall between a script's load and   *)
(* its handler: the load (Rerun) and the handler are separate steps.       *)
(***************************************************************************)
EXTENDS Integers, Sequences, FiniteSets, TLC

VARIABLES
    mode,            \* MODE: "cloud" or "local", fixed at start-up
    client,          \* cloud mode: get_gsheet_client() returned a client (cached for good)
    datafile,        \* cloud mode: the rows of finance_data.csv on the server's disk
    store,           \* the ledger rows of the backing store, in row order
    settings,        \* the persisted settings blob
    cache,           \* the st.cache_data entry of load_data
    run,             \* per session: the script run in progress (settings, df)
    pending_del_df,  \* per session, per category key: st.session_state pending_del_df_<key>
    confirm_del,     \* per session: the category keys whose confirm_del_<key> is True
    nruns,           \* script runs started so far
    last,            \* the handler that just ran: its inputs and the message it showed
                     \* (cleared when a script run starts)
    mig,             \* load_settings seen with object identity: the parsed blob, the
                     \* heap of its lists and dicts, and cat_config as load returns it
    rpt,             \* the totals of the dashboard and of generate_pdf_report over a
                     \* given table and category configuration
    del_proj_confirm, \* per session: st.session_state.del_proj_confirm
    del_proj_shown,  \* per session: the project the page was managing when the
                     \* delete-project button set the flag (the app keeps the flag only)
    backup           \* the ZIP the user last downloaded, with what was stored then

\* the variables of the app proper
appVars == <<mode, client, datafile, store, settings, cache, run, pending_del_df, confirm_del,
             nruns, last>>

\* ... those of them a handler that only sets session state leaves alone
appVarsButRunLast == <<mode, client, datafile, store, settings, cache, pending_del_df,
                       confirm_del, nruns>>

\* the variables of project deletion and of backup
mgmtVars == <<del_proj_confirm, del_proj_shown, backup>>

vars == <<appVars, mig, rpt, mgmtVars>>

----------------------------------------------------------------------------
(* Bounds of the model *)

MaxRows == 2         \* rows a ledger table may hold
MaxRuns == 3         \* script runs (user interactions) explored

Sessions == {1, 2}

----------------------------------------------------------------------------
(* Values *)

Blank == -1          \* an empty cell: None in the editor, NaN in a DataFrame
WholeYear == 0       \* the month selector's first option, "whole year"
NoSearch == ""       \* the empty search box

DefaultProject == "proj_default"
ProjectNames == {DefaultProject, "proj_b"}

CatIncome == "cat_income"
CatMaterials == "cat_materials"
DEFAULT_CAT_CONFIG ==
    << [key |-> CatIncome, type |-> "income"],
       [key |-> CatMaterials, type |-> "expense"] >>

CatKeys == {DEFAULT_CAT_CONFIG[i].key : i \in DOMAIN DEFAULT_CAT_CONFIG}

\* Dates are year*100 + month; the cached columns Year and month derive from them.
Dates == {202501, 202502, 202601}
EditDates == {202601}     \* dates typed into the editor's date column
Items == {"x"}

Year(d) == d \div 100
MonthOf(d) == d

IsNum(v) == v # Blank

\* pd.to_numeric(..., errors='coerce').fillna(0)
NumFill0(v) == IF v = Blank THEN 0 ELSE v

\* pd.to_numeric(a, errors='coerce') * pd.to_numeric(b, errors='coerce'): NaN propagates
NanMul(a, b) == IF a = Blank \/ b = Blank THEN Blank ELSE a * b

----------------------------------------------------------------------------
(* Sequences as tables *)

Range(t) == {t[i] : i \in DOMAIN t}

Count(t, r) == Cardinality({i \in DOMAIN t : t[i] = r})

SameBag(a, b) ==
    /\ Len(a) = Len(b)
    /\ \A r \in Range(a) \cup Range(b) : Count(a, r) = Count(b, r)

RECURSIVE InsertDesc(_, _)
InsertDesc(sorted, r) ==
    IF sorted = <<>> THEN <<r>>
    ELSE IF Head(sorted).date >= r.date
         THEN <<Head(sorted)>> \o InsertDesc(Tail(sorted), r)
         ELSE <<r>> \o sorted

RECURSIVE SortDateDesc(_)
SortDateDesc(t) ==
    IF t = <<>> THEN <<>>
    ELSE InsertDesc(SortDateDesc(SubSeq(t, 1, Len(t) - 1)), t[Len(t)])

----------------------------------------------------------------------------
(* Settings blob: the project list, the project keys of its four maps, and
   the suggested item strings as <<project, category key, item>> triples *)

DefaultSettings ==
    [projects     |-> <<DefaultProject>>,
     items        |-> {DefaultProject},
     locations    |-> {DefaultProject},
     cat_config   |-> {},
     item_details |-> {},
     sugg         |-> {}]

\* load_settings: the blob, with a category configuration for every project
LoadSettings(blob) ==
    [blob EXCEPT !.cat_config = blob.cat_config \cup Range(blob.projects)]

\* save_settings: in cloud mode an exception of the client is swallowed
SettingsOutcomes ==
    IF mode = "cloud" THEN (IF client THEN {"ok", "fail"} ELSE {"no_client"}) ELSE {"ok"}

\* How reading the settings blob can end: in cloud mode without a client, or
\* when the remote read raises, load_settings goes on with its defaults
SettingsReads ==
    IF mode = "cloud" THEN (IF client THEN {"ok", "fail"} ELSE {"no_client"}) ELSE {"ok"}

\* The blob load_settings starts from
StoredSettings(rs) == IF rs = "ok" THEN settings ELSE DefaultSettings

SaveSettings(o, data) == IF o = "ok" THEN data ELSE settings

RenamedSettings(st, old, new) ==
    [projects     |-> [i \in DOMAIN st.projects |->
                          IF st.projects[i] = old THEN new ELSE st.projects[i]],
     items        |-> (st.items \ {old}) \cup {new},
     locations    |-> (st.locations \ {old}) \cup {new},
     cat_config   |-> (st.cat_config \ {old}) \cup {new},
     item_details |-> IF old \in st.item_details
                      THEN (st.item_details \ {old}) \cup {new}
                      ELSE st.item_details,
     sugg         |-> {t \in st.sugg : t[1] \notin {old, new}} \cup
                      {<<new, t[2], t[3]>> : t \in {u \in st.sugg : u[1] = old}}]

----------------------------------------------------------------------------
(* load_data and save_dataframe *)

NoCache == [valid |-> FALSE, df |-> <<>>]

\* How reading the ledger can end: in cloud mode there may be no client, or
\* the remote read may raise
ReadOutcomes ==
    IF mode = "cloud" THEN (IF client THEN {"ok", "fail"} ELSE {"no_client"}) ELSE {"ok"}

\* The body of load_data: the sheet in cloud mode; without a client, or after
\* an exception, it falls through to the local-mode code and reads DATA_FILE
ReadTable(rd) == IF mode = "cloud" /\ rd # "ok" THEN datafile ELSE store

\* load_data(): the cached table while the cache entry lives, else what is read
LoadData(rd) == IF cache.valid THEN cache.df ELSE ReadTable(rd)

CacheAfterLoad(rd) == IF cache.valid THEN cache ELSE [valid |-> TRUE, df |-> ReadTable(rd)]

\* How a whole-table write can end. In cloud mode get_gsheet_client() may
\* return None, and client.open(), sheet.clear() and sheet.update() are remote
\* calls: open or clear may raise (nothing written), or update may raise after
\* the sheet was cleared.
SaveOutcomes ==
    IF mode = "cloud"
    THEN (IF client THEN {"ok", "fail_open", "fail_update"} ELSE {"no_client"})
    ELSE {"ok"}

\* The store after save_dataframe(rows) ended with outcome o
StoreAfterSave(o, rows) ==
    CASE o = "ok"          -> rows
      [] o = "no_client"   -> store
      [] o = "fail_open"   -> store
      [] o = "fail_update" -> <<>>

\* The cache after save_dataframe ended with outcome o, c being the cache before
CacheAfterSave(o, c) == IF mode = "cloud" /\ o = "ok" THEN NoCache ELSE c

\* save_dataframe's return value is True
SaveReturnsTrue(o) == o = "ok"

\* save_dataframe's except branch ran: st.error shown, False returned
SaveShowsError(o) == o \in {"fail_open", "fail_update"}

\* What the screen shows after "if save_dataframe(...): st.success(...)"
MsgAfterSave(o) ==
    IF SaveReturnsTrue(o) THEN "success"
    ELSE IF SaveShowsError(o) THEN "error" ELSE "none"

----------------------------------------------------------------------------
(* Detail tab: selection, editor, partition-replace *)

\* (variant of Mask that forgets the category)
MaskNoCategory(r, P, key, sel_year, sel_month) ==
    /\ r.proj = P
    /\ Year(r.date) = sel_year
    /\ (sel_month # WholeYear => MonthOf(r.date) = sel_month)

\* mask of the update and delete-confirmation handlers
Mask(r, P, key, sel_year, sel_month) ==
    /\ r.proj = P
    /\ r.cat = key
    /\ Year(r.date) = sel_year
    /\ (sel_month # WholeYear => MonthOf(r.date) = sel_month)

DfKept(df, P, key, sel_year, sel_month) ==
    SelectSeq(df, LAMBDA r : ~Mask(r, P, key, sel_year, sel_month))

\* str.contains(search_kw) on the text columns; keywords are whole item texts here
ContainsKw(r, search_kw) == r.item = search_kw

\* view_df restricted to one category: project, year, month and search filters
CatDf(df, P, key, sel_year, sel_month, search_kw) ==
    SelectSeq(df, LAMBDA r :
        /\ r.proj = P
        /\ Year(r.date) = sel_year
        /\ (sel_month # WholeYear => MonthOf(r.date) = sel_month)
        /\ (search_kw # NoSearch => ContainsKw(r, search_kw))
        /\ r.cat = key)

\* A row of the editor: the shown columns plus the deletion box
EditorRow(r) ==
    [del |-> "no", date |-> r.date, item |-> r.item, qty |-> r.qty,
     price |-> r.price, total |-> NumFill0(r.total)]

\* The table handed to st.data_editor
EditorTable(df, P, key, sel_year, sel_month, search_kw) ==
    LET sorted == SortDateDesc(CatDf(df, P, key, sel_year, sel_month, search_kw))
    IN  [i \in DOMAIN sorted |-> EditorRow(sorted[i])]

\* The user's edits: the boxes of the last rows ticked, and either a cell of the
\* first row changed (quantity emptied, date retyped) or a row added, or neither
CellEdits(n) ==
    {[row |-> i, col |-> "qty", num |-> Blank] : i \in {1} \cap (1..n)}
    \cup {[row |-> i, col |-> "date", num |-> d] : i \in {1} \cap (1..n), d \in EditDates}

\* A row added in the editor: its deletion box and its total (a disabled column) are empty
NewRows ==
    {[del |-> "none", date |-> 202501, item |-> "x", qty |-> Blank, price |-> 3, total |-> Blank]}

Edits(n) ==
    {e \in [tick : {k..n : k \in 1..(n+1)},
            cell : {<<>>} \cup {<<c>> : c \in CellEdits(n)},
            add  : {<<>>} \cup {<<r>> : r \in NewRows}] :
        e.cell = <<>> \/ e.add = <<>>}

ApplyCell(row, c) ==
    CASE c.col = "qty"   -> [row EXCEPT !.qty = c.num]
      [] c.col = "date"  -> [row EXCEPT !.date = c.num]

\* edited_cat: what st.data_editor returns
ApplyEdit(base, e) ==
    [i \in DOMAIN base |->
        LET ticked == IF i \in e.tick THEN [base[i] EXCEPT !.del = "yes"] ELSE base[i]
        IN  IF e.cell # <<>> /\ e.cell[1].row = i
            THEN ApplyCell(ticked, e.cell[1]) ELSE ticked]
    \o e.add

\* (variant of AnyTicked that asks whether the editor shows any row)
AnyTickedAnyRow(edited) == edited # <<>>

\* edited_cat[delete box].any()
AnyTicked(edited) == \E i \in DOMAIN edited : edited[i].del = "yes"

\* (variant of UpdateRow that takes the unit price for the total)
UpdateRowTotalIsPrice(e, P, key) ==
    [proj |-> P, cat |-> key, date |-> e.date, item |-> e.item,
     qty |-> NumFill0(e.qty), price |-> NumFill0(e.price),
     total |-> NumFill0(e.price)]

\* (variant of UpdateRow that leaves a row added in the editor without category)
UpdateRowOwnCategory(e, P, key) ==
    [proj |-> P, cat |-> IF e.del = "none" THEN "nan" ELSE key, date |-> e.date,
     item |-> e.item, qty |-> NumFill0(e.qty), price |-> NumFill0(e.price),
     total |-> NumFill0(e.qty) * NumFill0(e.price)]

\* df_add of the update handler: every edited row, numbers coerced, total recomputed
UpdateRow(e, P, key) ==
    [proj |-> P, cat |-> key, date |-> e.date, item |-> e.item,
     qty |-> NumFill0(e.qty), price |-> NumFill0(e.price),
     total |-> NumFill0(e.qty) * NumFill0(e.price)]

UpdateRows(edited, P, key) == [i \in DOMAIN edited |-> UpdateRow(edited[i], P, key)]

\* df_add of the delete confirmation: the rows whose box is False
DeleteRow(e, P, key) ==
    [proj |-> P, cat |-> key, date |-> e.date, item |-> e.item,
     qty |-> e.qty, price |-> e.price, total |-> NanMul(e.qty, e.price)]

RowsKeep(pending) == SelectSeq(pending, LAMBDA e : e.del = "no")

DeleteRows(pending, P, key) ==
    LET keep == RowsKeep(pending)
    IN  [i \in DOMAIN keep |-> DeleteRow(keep[i], P, key)]

----------------------------------------------------------------------------
(* State *)

NotRunning == [on |-> FALSE, settings |-> DefaultSettings, df |-> <<>>]

NoLast ==
    [op |-> "none", sess |-> 0, msg |-> "none", saved |-> FALSE, pre |-> <<>>, S |-> <<>>,
     proj |-> "", cat |-> "", year |-> 0, month |-> WholeYear, kw |-> NoSearch,
     edited |-> <<>>, rec |-> <<>>, newname |-> "", new |-> <<>>, out |-> "none",
     ssave |-> "none", oldname |-> "", ticks |-> {}]

\* What the sheet or the CSV file holds when the app starts: nothing, or a
\* ledger kept by hand whose total column was typed in
ExistingLedgers ==
    { <<>>,
      << [proj |-> DefaultProject, cat |-> CatMaterials, date |-> 202502,
          item |-> "x", qty |-> 2, price |-> 3, total |-> 7] >> }

\* Spec and SpecRace work on the settings blob by value and leave mig alone
NoMigration == [phase |-> "none"]

\* ... and compute no report
NoReport == [phase |-> "none"]

\* No ZIP was downloaded
NoBackup ==
    [made |-> FALSE, target |-> "", file |-> [kind |-> "zip", data |-> <<>>,
                                              settings |-> DefaultSettings],
     store |-> <<>>, settings |-> DefaultSettings]

\* No deletion of a project is asked for and no backup is at hand
NoManagement ==
    /\ del_proj_confirm = [s \in Sessions |-> FALSE]
    /\ del_proj_shown = [s \in Sessions |-> ""]
    /\ backup = NoBackup

\* Three deployments: local mode over an existing CSV file; cloud mode with a
\* client over an existing sheet; cloud mode in which no client can be made
\* (the sheet is then never reached, so its content is left out) on a server
\* whose disk may hold a finance_data.csv from an earlier local-mode run
Init ==
    /\ mode \in {"cloud", "local"}
    /\ client \in (IF mode = "cloud" THEN BOOLEAN ELSE {FALSE})
    /\ store \in (IF mode = "cloud" /\ ~client THEN {<<>>} ELSE ExistingLedgers)
    /\ datafile \in (IF mode = "cloud" /\ ~client THEN ExistingLedgers ELSE {<<>>})
    /\ settings = DefaultSettings
    /\ cache = NoCache
    /\ run = [s \in Sessions |-> NotRunning]
    /\ pending_del_df = [s \in Sessions |-> [k \in CatKeys |-> <<>>]]
    /\ confirm_del = [s \in Sessions |-> {}]
    /\ last = NoLast
    /\ nruns = 0
    /\ mig = NoMigration
    /\ rpt = NoReport
    /\ NoManagement

\* The session's script run is over (it ended, or st.rerun() was called)
EndRun(s) == run' = [run EXCEPT ![s] = NotRunning]

\* global_project: an entry of the select box over settings["projects"]
ProjectChoices(s) == Range(run[s].settings.projects)

\* The year and month select boxes of the detail tab, over the project's rows
YearChoices(df, P) == {Year(df[i].date) : i \in {j \in DOMAIN df : df[j].proj = P}}

MonthChoices(df, P, sel_year) ==
    {WholeYear} \cup
    {MonthOf(df[i].date) : i \in {j \in DOMAIN df : df[j].proj = P /\ Year(df[j].date) = sel_year}}

SearchInputs == {NoSearch} \cup Items

\* Script start: settings = load_settings(); df = load_data()
Rerun(s) ==
    /\ ~run[s].on
    /\ nruns < MaxRuns
    /\ nruns' = nruns + 1
    /\ \E rs \in SettingsReads, rd \in ReadOutcomes :
        /\ run' = [run EXCEPT ![s] =
                      [on |-> TRUE, settings |-> LoadSettings(StoredSettings(rs)),
                       df |-> LoadData(rd)]]
        /\ cache' = CacheAfterLoad(rd)
    /\ last' = NoLast
    /\ UNCHANGED <<mgmtVars, rpt, mig, mode, client, datafile, store, settings, pending_del_df, confirm_del>>

\* A script run in which no button was pressed
Finish(s) ==
    /\ run[s].on
    /\ EndRun(s)
    /\ last' = [NoLast EXCEPT !.op = "finish", !.sess = s]
    /\ UNCHANGED <<mgmtVars, rpt, mig, nruns, mode, client, datafile, store, settings, cache, pending_del_df, confirm_del>>

\* The cache entry's time-to-live (60 s) runs out. Only load_data sees the
\* entry, so the expiry is followed while a call of it can still come: a
\* script run yet to start, or, in local mode, append_record in a run under way.
CacheExpire ==
    /\ cache.valid
    /\ nruns < MaxRuns \/ (mode = "local" /\ \E s \in Sessions : run[s].on)
    /\ cache' = NoCache
    /\ UNCHANGED <<mgmtVars, rpt, mig, nruns, mode, client, datafile, store, settings, run, pending_del_df, confirm_del, last>>

\* The sidebar's refresh button: load_data.clear(); st.rerun()
RefreshData(s) ==
    /\ run[s].on
    /\ cache' = NoCache
    /\ EndRun(s)
    /\ last' = [NoLast EXCEPT !.op = "refresh", !.sess = s]
    /\ UNCHANGED <<mgmtVars, rpt, mig, nruns, mode, client, datafile, store, settings, pending_del_df, confirm_del>>

----------------------------------------------------------------------------
(* Entry tab: append_record *)

EntryDates == {202501}
EntryItems == {"x"}
EntryQty == {2}
EntryPrice == {3}

\* The record the entry form builds; an income form hides quantity (qty = 1)
EntryRecord(P, conf, d, it, q, p) ==
    LET qty == IF conf.type = "income" THEN 1 ELSE q
    IN  [proj |-> P, cat |-> conf.key, date |-> d, item |-> it,
         qty |-> qty, price |-> p, total |-> qty * p]

\* The table append_record leaves in the store: cloud mode appends a row to the
\* sheet, local mode rewrites the file from load_data() plus the record
AppendedStore(current_df, rec) ==
    IF mode = "cloud" THEN Append(store, rec) ELSE Append(current_df, rec)

\* How append_record can end: in cloud mode there may be no client (None is
\* returned and nothing shown) or the remote call may raise (st.error, False)
AppendOutcomes ==
    IF mode = "cloud" THEN (IF client THEN {"ok", "fail"} ELSE {"no_client"}) ELSE {"ok"}

AppendMsg(o) == CASE o = "ok" -> "success" [] o = "fail" -> "error" [] o = "no_client" -> "none"

AppendEntry(s) ==
    /\ run[s].on
    /\ \E P \in ProjectChoices(s), i \in DOMAIN DEFAULT_CAT_CONFIG, d \in EntryDates,
          it \in EntryItems, q \in EntryQty, p \in EntryPrice, o \in AppendOutcomes :
        LET rec == EntryRecord(P, DEFAULT_CAT_CONFIG[i], d, it, q, p)
            current_df == LoadData("ok")
            log == [NoLast EXCEPT !.op = "append", !.sess = s, !.pre = store,
                       !.S = run[s].df, !.proj = P, !.cat = rec.cat, !.rec = <<rec>>]
        IN  /\ Len(store) < MaxRows
            /\ Len(current_df) < MaxRows
            /\ IF mode = "cloud"
               THEN /\ store' = IF o = "ok" THEN AppendedStore(current_df, rec) ELSE store
                    /\ cache' = IF o = "ok" THEN NoCache ELSE cache
                    /\ last' = [log EXCEPT !.msg = AppendMsg(o), !.saved = (o = "ok"),
                                            !.out = o, !.new = Append(store, rec)]
               ELSE /\ store' = AppendedStore(current_df, rec)
                    /\ cache' = CacheAfterSave("ok", CacheAfterLoad("ok"))
                    /\ last' = [log EXCEPT !.msg = "success", !.saved = TRUE,
                                            !.out = o, !.new = Append(current_df, rec)]
    /\ EndRun(s)
    /\ UNCHANGED <<mgmtVars, rpt, mig, nruns, mode, client, datafile, settings, pending_del_df, confirm_del>>

----------------------------------------------------------------------------
(* Detail tab: update, delete, delete confirmation *)

\* The widgets of the detail tab for which the editor of category key is shown
Selections(df, P, key) ==
    {sel \in [year : YearChoices(df, P), month : {WholeYear} \cup Dates, kw : SearchInputs] :
        /\ sel.month \in MonthChoices(df, P, sel.year)
        /\ EditorTable(df, P, key, sel.year, sel.month, sel.kw) # <<>>}

TabLog(op, s, P, key, sel, edited) ==
    [NoLast EXCEPT !.op = op, !.sess = s, !.pre = store, !.S = run[s].df,
        !.proj = P, !.cat = key, !.year = sel.year, !.month = sel.month,
        !.kw = sel.kw, !.edited = edited]

\* (variant of CurrentFullDf that reads the store again before writing)
CurrentFullDfReread(s) == store

\* current_full_df of the handlers: the df loaded at script start
CurrentFullDf(s) == run[s].df

\* "Update" button
SubmitUpdate(s) ==
    /\ run[s].on
    /\ \E P \in ProjectChoices(s), key \in CatKeys :
       \E sel \in Selections(run[s].df, P, key) :
        LET base == EditorTable(run[s].df, P, key, sel.year, sel.month, sel.kw)
        IN  IF sel.kw # NoSearch
            THEN \* refused whatever the edits are
                 /\ last' = [TabLog("update", s, P, key, sel, <<>>) EXCEPT !.msg = "error"]
                 /\ UNCHANGED <<store, cache>>
            ELSE \E e \in Edits(Len(base)), o \in SaveOutcomes :
                 LET edited == ApplyEdit(base, e)
                     rows == DfKept(CurrentFullDf(s), P, key, sel.year, sel.month)
                                 \o UpdateRows(edited, P, key)
                     log == TabLog("update", s, P, key, sel, edited)
                 IN  /\ Len(rows) <= MaxRows
                     /\ store' = StoreAfterSave(o, rows)
                     /\ cache' = CacheAfterSave(o, cache)
                     /\ last' = [log EXCEPT !.saved = SaveReturnsTrue(o), !.new = rows,
                                             !.out = o, !.msg = MsgAfterSave(o)]
    /\ EndRun(s)
    /\ UNCHANGED <<mgmtVars, rpt, mig, nruns, mode, client, datafile, settings, pending_del_df, confirm_del>>

\* "Delete selected" button
SubmitDelete(s) ==
    /\ run[s].on
    /\ \E P \in ProjectChoices(s), key \in CatKeys :
       \E sel \in Selections(run[s].df, P, key) :
        LET base == EditorTable(run[s].df, P, key, sel.year, sel.month, sel.kw)
        IN  \E e \in Edits(Len(base)) :
            LET edited == ApplyEdit(base, e)
                \* a refusal is logged with the boxes the user ticked, not
                \* with the whole edited table
                refused == [TabLog("delete", s, P, key, sel, <<>>) EXCEPT !.ticks = e.tick]
            IN  IF ~AnyTicked(edited)
                THEN /\ last' = [refused EXCEPT !.msg = "warning"]
                     /\ UNCHANGED <<pending_del_df, confirm_del>>
                ELSE IF sel.kw # NoSearch
                THEN /\ last' = [refused EXCEPT !.msg = "error"]
                     /\ UNCHANGED <<pending_del_df, confirm_del>>
                ELSE /\ pending_del_df' = [pending_del_df EXCEPT ![s][key] = edited]
                     /\ confirm_del' = [confirm_del EXCEPT ![s] = @ \cup {key}]
                     /\ last' = [TabLog("delete", s, P, key, sel, edited)
                                    EXCEPT !.msg = "confirm", !.ticks = e.tick]
    /\ EndRun(s)
    /\ UNCHANGED <<mgmtVars, rpt, mig, nruns, mode, client, datafile, store, settings, cache>>

\* "Yes, delete" of the confirmation shown under the category's editor
ConfirmYes(s) ==
    /\ run[s].on
    /\ \E P \in ProjectChoices(s), key \in confirm_del[s] :
       \E sel \in Selections(run[s].df, P, key), o \in SaveOutcomes :
        LET pending_df == pending_del_df[s][key]
            rows == DfKept(CurrentFullDf(s), P, key, sel.year, sel.month)
                        \o DeleteRows(pending_df, P, key)
            log == TabLog("delete_yes", s, P, key, sel, pending_df)
        IN  /\ Len(rows) <= MaxRows
            /\ store' = StoreAfterSave(o, rows)
            /\ cache' = CacheAfterSave(o, cache)
            /\ IF SaveReturnsTrue(o)
               THEN /\ last' = [log EXCEPT !.msg = "success", !.saved = TRUE, !.new = rows,
                                        !.out = o]
                    /\ confirm_del' = [confirm_del EXCEPT ![s] = @ \ {key}]
                    /\ pending_del_df' = [pending_del_df EXCEPT ![s][key] = <<>>]
               ELSE /\ last' = [log EXCEPT !.msg = MsgAfterSave(o), !.new = rows, !.out = o]
                    /\ UNCHANGED <<pending_del_df, confirm_del>>
    /\ EndRun(s)
    /\ UNCHANGED <<mgmtVars, rpt, mig, nruns, mode, client, datafile, settings>>

\* "No, cancel" of the confirmation
ConfirmNo(s) ==
    /\ run[s].on
    /\ \E P \in ProjectChoices(s), key \in confirm_del[s] :
       \E sel \in Selections(run[s].df, P, key) :
        /\ confirm_del' = [confirm_del EXCEPT ![s] = @ \ {key}]
        /\ pending_del_df' = [pending_del_df EXCEPT ![s][key] = <<>>]
        /\ last' = TabLog("delete_no", s, P, key, sel, <<>>)
    /\ EndRun(s)
    /\ UNCHANGED <<mgmtVars, rpt, mig, nruns, mode, client, datafile, store, settings, cache>>

----------------------------------------------------------------------------
(* Settings tab: restore, project rename *)

\* Files the user uploads: a CSV export edited by hand (its first total no longer
\* agrees with quantity x price) and a ZIP backup of a two-project system
CsvFile ==
    [kind |-> "csv",
     data |-> << [proj |-> DefaultProject, cat |-> CatMaterials, date |-> 202502,
                  item |-> "x", qty |-> 2, price |-> 3, total |-> 7] >>,
     settings |-> DefaultSettings]

ZipFile ==
    [kind |-> "zip",
     data |-> << [proj |-> DefaultProject, cat |-> CatIncome, date |-> 202501,
                  item |-> "x", qty |-> 1, price |-> 3, total |-> 3],
                 [proj |-> "proj_b", cat |-> CatMaterials, date |-> 202501,
                  item |-> "x", qty |-> 2, price |-> 3, total |-> 6] >>,
     settings |-> [projects     |-> <<DefaultProject, "proj_b">>,
                   items        |-> {DefaultProject, "proj_b"},
                   locations    |-> {DefaultProject, "proj_b"},
                   cat_config   |-> {DefaultProject, "proj_b"},
                   item_details |-> {},
                   sugg         |-> {<<DefaultProject, CatIncome, "x">>}]]

\* ... or the ZIP downloaded from the app before
UploadFiles == {CsvFile, ZipFile} \cup (IF backup.made THEN {backup.file} ELSE {})

\* "Start restore" button
Restore(s) ==
    /\ run[s].on
    /\ \E f \in UploadFiles, o \in SaveOutcomes, os \in SettingsOutcomes :
        LET log == [NoLast EXCEPT !.op = "restore", !.sess = s, !.pre = store,
                       !.S = run[s].df, !.rec = f.data, !.new = f.data, !.out = o]
        IN  /\ store' = StoreAfterSave(o, f.data)
            /\ cache' = CacheAfterSave(o, cache)
            /\ IF f.kind = "csv"
               THEN /\ os = "ok"
                    /\ UNCHANGED settings
                    /\ last' = [log EXCEPT !.saved = SaveReturnsTrue(o),
                                            !.msg = MsgAfterSave(o)]
               ELSE /\ settings' = SaveSettings(os, f.settings)
                    /\ last' = [log EXCEPT !.saved = SaveReturnsTrue(o), !.msg = "success",
                                            !.ssave = os]
    /\ EndRun(s)
    /\ UNCHANGED <<mgmtVars, rpt, mig, nruns, mode, client, datafile, pending_del_df, confirm_del>>

\* df.loc[df[project] == global_project, project] = rename_proj
RenamedDf(df, old, new) ==
    [i \in DOMAIN df |-> IF df[i].proj = old THEN [df[i] EXCEPT !.proj = new] ELSE df[i]]

\* "Confirm rename" of form_ren_project
RenameProject(s) ==
    /\ run[s].on
    /\ \E P \in ProjectChoices(s), rename_proj \in ProjectNames,
          o \in SaveOutcomes, os \in SettingsOutcomes :
        /\ rename_proj # P
        /\ LET st  == run[s].settings
               df  == run[s].df
               log == [NoLast EXCEPT !.op = "rename", !.sess = s, !.pre = store,
                          !.S = df, !.proj = P, !.newname = rename_proj]
           IN  IF P \notin st.items \/ P \notin st.locations
               THEN \* dict.pop raises KeyError: the script run aborts
                    /\ o = "ok" /\ os = "ok"
                    /\ last' = [log EXCEPT !.msg = "exception"]
                    /\ UNCHANGED <<store, cache, settings>>
               ELSE /\ settings' = SaveSettings(os, RenamedSettings(st, P, rename_proj))
                    /\ IF df # <<>>
                       THEN /\ store' = StoreAfterSave(o, RenamedDf(df, P, rename_proj))
                            /\ cache' = CacheAfterSave(o, cache)
                            /\ last' = [log EXCEPT !.msg = "success", !.ssave = os,
                                            !.saved = SaveReturnsTrue(o), !.out = o,
                                            !.new = RenamedDf(df, P, rename_proj)]
                       ELSE /\ o = "ok"
                            /\ UNCHANGED <<store, cache>>
                            /\ last' = [log EXCEPT !.msg = "success", !.ssave = os]
    /\ EndRun(s)
    /\ UNCHANGED <<mgmtVars, rpt, mig, nruns, mode, client, datafile, pending_del_df, confirm_del>>

----------------------------------------------------------------------------
(* Settings tab: categories and suggested items of the current project *)

\* The settings the item manager works on: it gives the current project its
\* entries in the three maps before any button is looked at
ManagedSettings(st, P) ==
    [st EXCEPT !.items = @ \cup {P}, !.locations = @ \cup {P},
               !.item_details = @ \cup {P}]

\* Names typed into the rename box of a suggested item
NewItemNames == {"y"}

\* df.loc[project & category & (item == it), item] = rn
ItemRenamedDf(df, P, cat_key, it, rn) ==
    [i \in DOMAIN df |->
        IF df[i].proj = P /\ df[i].cat = cat_key /\ df[i].item = it
        THEN [df[i] EXCEPT !.item = rn] ELSE df[i]]

\* The save button next to a suggested item whose name was changed
RenameItem(s) ==
    /\ run[s].on
    /\ \E P \in ProjectChoices(s), cat_key \in CatKeys, it \in Items, rn \in NewItemNames,
          o \in SaveOutcomes, os \in SettingsOutcomes :
        /\ <<P, cat_key, it>> \in run[s].settings.sugg
        /\ rn # it
        /\ LET st  == ManagedSettings(run[s].settings, P)
               df  == run[s].df
               st2 == [st EXCEPT !.sugg = (@ \ {<<P, cat_key, it>>}) \cup {<<P, cat_key, rn>>}]
               log == [NoLast EXCEPT !.op = "rename_item", !.sess = s, !.pre = store,
                          !.S = df, !.proj = P, !.cat = cat_key, !.oldname = it,
                          !.newname = rn, !.msg = "success", !.ssave = os]
           IN  /\ IF df # <<>>
                  THEN /\ store' = StoreAfterSave(o, ItemRenamedDf(df, P, cat_key, it, rn))
                       /\ cache' = CacheAfterSave(o, cache)
                       /\ last' = [log EXCEPT !.saved = SaveReturnsTrue(o), !.out = o,
                                       !.new = ItemRenamedDf(df, P, cat_key, it, rn)]
                  ELSE /\ o = "ok"
                       /\ UNCHANGED <<store, cache>>
                       /\ last' = log
               /\ settings' = SaveSettings(os, st2)
    /\ EndRun(s)
    /\ UNCHANGED <<mgmtVars, rpt, mig, nruns, mode, client, datafile, pending_del_df, confirm_del>>

\* The update button next to a category whose display label was changed. The
\* label lives in cat_config only (ledger records carry the category key), so
\* of the blob modelled here nothing changes but that it is written back.
RenameCategoryDisplay(s) ==
    /\ run[s].on
    /\ \E P \in ProjectChoices(s), cat_key \in CatKeys, os \in SettingsOutcomes :
        /\ settings' = SaveSettings(os, run[s].settings)
        /\ last' = [NoLast EXCEPT !.op = "rename_cat", !.sess = s, !.pre = store,
                        !.S = run[s].df, !.proj = P, !.cat = cat_key,
                        !.msg = "success", !.ssave = os]
    /\ EndRun(s)
    /\ UNCHANGED <<mgmtVars, rpt, mig, nruns, mode, client, datafile, store, cache, pending_del_df, confirm_del>>

\* settings after the assignments of form_add_project
AddedSettings(st, new_proj) ==
    [st EXCEPT !.projects = Append(@, new_proj), !.items = @ \cup {new_proj},
               !.locations = @ \cup {new_proj}, !.cat_config = @ \cup {new_proj}]

\* "Add project" of form_add_project. After the append to the project list the
\* handler builds the new project's item map with c["key"] for c in
\* settings["cat_config"]: cat_config is by now a map keyed by project name,
\* c is a string, and the subscript raises TypeError unless the map is empty.
\* The script run aborts before save_settings; the next run loads the stored
\* blob again.
AddProject(s) ==
    /\ run[s].on
    /\ \E new_proj \in ProjectNames, os \in SettingsOutcomes :
        /\ new_proj \notin Range(run[s].settings.projects)
        /\ LET st  == run[s].settings
               log == [NoLast EXCEPT !.op = "add_project", !.sess = s, !.pre = store,
                          !.S = run[s].df, !.newname = new_proj]
           IN  IF st.cat_config # {}
               THEN /\ os = "ok"
                    /\ last' = [log EXCEPT !.msg = "exception"]
                    /\ UNCHANGED settings
               ELSE /\ settings' = SaveSettings(os, AddedSettings(st, new_proj))
                    /\ last' = [log EXCEPT !.msg = "success", !.ssave = os]
    /\ EndRun(s)
    /\ UNCHANGED <<mgmtVars, rpt, mig, nruns, mode, client, datafile, store, cache, pending_del_df, confirm_del>>

\* What a script run can end with in the settings tab
SettingsHandler(s) ==
    \/ AddProject(s)
    \/ RenameItem(s)
    \/ RenameCategoryDisplay(s)

----------------------------------------------------------------------------
(* Dashboard tab *)

\* dash_df = df[df[project] == global_project]
DashDf(df, P) == SelectSeq(df, LAMBDA r : r.proj = P)

\* Series.sum() of the total column, coerced to numbers with blanks as 0
RECURSIVE SumTotal(_)
SumTotal(t) == IF t = <<>> THEN 0 ELSE NumFill0(Head(t).total) + SumTotal(Tail(t))

\* The two metrics of the dashboard; nothing is shown for a project without rows
Dashboard(df, P) ==
    LET dash_df    == DashDf(df, P)
        income_df  == SelectSeq(dash_df, LAMBDA r : r.cat = CatIncome)
        expense_df == SelectSeq(dash_df, LAMBDA r : r.cat # CatIncome)
    IN  IF dash_df = <<>>
        THEN [shown |-> FALSE, in_total |-> 0, out_total |-> 0]
        ELSE [shown |-> TRUE, in_total |-> SumTotal(income_df),
              out_total |-> SumTotal(expense_df)]

----------------------------------------------------------------------------
(* load_settings with object identity. A heap is a sequence of objects, an
   address an index into it. A category list is a list object holding the
   addresses of its entry objects; cat_config maps project names to
   addresses of list objects. *)

Entry(k, d) == [kind |-> "entry", key |-> k, display |-> d, elems |-> <<>>]

ListObj(as) == [kind |-> "list", key |-> "", display |-> "", elems |-> as]

\* A new list object over new entry objects with the given values
AllocList(h, vals) ==
    [heap |-> h \o vals \o <<ListObj([i \in DOMAIN vals |-> Len(h) + i])>>,
     addr |-> Len(h) + Len(vals) + 1]

\* The list at address a, by value
ListValue(h, a) == [i \in DOMAIN h[a].elems |-> h[h[a].elems[i]]]

\* (variant of DeepCopy that hands out the same list object again)
DeepCopyShared(h, a) == [heap |-> h, addr |-> a]

\* copy.deepcopy of a category list
DeepCopy(h, a) == AllocList(h, ListValue(h, a))

\* The module-level DEFAULT_CAT_CONFIG lies at the bottom of the heap
DefaultHeap ==
    AllocList(<<>>, [i \in DOMAIN DEFAULT_CAT_CONFIG |->
                        Entry(DEFAULT_CAT_CONFIG[i].key, "default")])

NoDict == [p \in {} |-> 0]

\* json.loads of a cat_config stored as a map: a list object of its own for
\* every key
RECURSIVE ParseDict(_, _, _, _)
ParseDict(h, cc, keys, vals) ==
    IF keys = {} THEN [heap |-> h, cat_config |-> cc]
    ELSE LET p == CHOOSE q \in keys : TRUE
             c == AllocList(h, vals)
         IN  ParseDict(c.heap, (p :> c.addr) @@ cc, keys \ {p}, vals)

\* Stored category lists and project lists
OldConfigLists ==
    { <<>>, <<Entry(CatIncome, "old")>>,
      <<Entry(CatIncome, "old"), Entry(CatMaterials, "old")>> }

StoredProjectLists ==
    {<<>>} \cup {<<p>> : p \in ProjectNames}
           \cup {<<p, q>> : p \in ProjectNames, q \in ProjectNames}

\* The parsed blob: "projects" may be missing; cat_config is a flat list (the
\* old shape), a map over some project names, or something else
ParsedBlob(has_projects, projects, shape, old, keys) ==
    LET asList == AllocList(DefaultHeap.heap, old)
        asDict == ParseDict(DefaultHeap.heap, NoDict, keys, old)
    IN  [phase |-> "parsed", has_projects |-> has_projects, projects |-> projects,
         shape |-> shape, old |-> old,
         heap |-> CASE shape = "list" -> asList.heap
                    [] shape = "dict" -> asDict.heap
                    [] OTHER          -> DefaultHeap.heap,
         old_config_list |-> IF shape = "list" THEN asList.addr ELSE 0,
         cat_config |-> IF shape = "dict" THEN asDict.cat_config ELSE NoDict,
         loaded |-> NoDict, touched |-> {}, nmut |-> 0]

ParsedBlobs ==
    {ParsedBlob(TRUE, ps, "list", old, {}) : ps \in StoredProjectLists, old \in OldConfigLists}
    \cup {ParsedBlob(TRUE, ps, "dict", <<Entry(CatIncome, "old")>>, keys) :
             ps \in StoredProjectLists, keys \in SUBSET ProjectNames}
    \cup {ParsedBlob(TRUE, ps, "other", <<>>, {}) : ps \in StoredProjectLists}
    \cup {ParsedBlob(FALSE, <<>>, "list", old, {}) : old \in OldConfigLists}

\* for p in settings["projects"]: settings["cat_config"][p] = deepcopy(src),
\* for every p or only for those without an entry
RECURSIVE CopyForProjects(_, _, _, _, _)
CopyForProjects(h, cc, projects, src, only_missing) ==
    IF projects = <<>> THEN [heap |-> h, cat_config |-> cc]
    ELSE LET p == Head(projects)
         IN  IF only_missing /\ p \in DOMAIN cc
             THEN CopyForProjects(h, cc, Tail(projects), src, only_missing)
             ELSE LET c == DeepCopy(h, src)
                  IN  CopyForProjects(c.heap, (p :> c.addr) @@ cc, Tail(projects),
                                      src, only_missing)

\* settings["projects"] after step 1 of the migration
MigratedProjects(b) == IF b.has_projects THEN b.projects ELSE <<DefaultProject>>

\* Steps 2 and 3 of load_settings
Migrate(b) ==
    LET projects == MigratedProjects(b)
        fromList == CopyForProjects(b.heap, NoDict, projects, b.old_config_list, FALSE)
    IN  CASE b.shape = "list" ->
               CopyForProjects(fromList.heap, fromList.cat_config, projects,
                               DefaultHeap.addr, TRUE)
          [] b.shape = "dict" ->
               CopyForProjects(b.heap, b.cat_config, projects, DefaultHeap.addr, TRUE)
          [] OTHER ->
               CopyForProjects(b.heap, NoDict, projects, DefaultHeap.addr, FALSE)

\* load_settings returns
MigrateOnLoad ==
    /\ mig.phase = "parsed"
    /\ LET m == Migrate(mig)
       IN  mig' = [mig EXCEPT !.phase = "loaded", !.heap = m.heap,
                      !.cat_config = m.cat_config,
                      !.loaded = [p \in DOMAIN m.cat_config |->
                                     ListValue(m.heap, m.cat_config[p])]]
    /\ UNCHANGED <<appVars, rpt, mgmtVars>>

\* Mutations of one project's configuration that the settings tab makes
MaxMut == 2

\* current_cat_config.append({...}) of form_add_cat
AppendCategory(p) ==
    /\ mig.phase = "loaded"
    /\ mig.nmut < MaxMut
    /\ p \in DOMAIN mig.cat_config
    /\ LET a == mig.cat_config[p]
           h == mig.heap \o <<Entry("cat_new", "cat_new")>>
       IN  mig' = [mig EXCEPT !.heap = [h EXCEPT ![a].elems = Append(@, Len(h))],
                              !.touched = @ \cup {p}, !.nmut = @ + 1]
    /\ UNCHANGED <<appVars, rpt, mgmtVars>>

\* current_cat_config[idx]["display"] = new_display
SetDisplay(p) ==
    /\ mig.phase = "loaded"
    /\ mig.nmut < MaxMut
    /\ p \in DOMAIN mig.cat_config
    /\ \E idx \in DOMAIN mig.heap[mig.cat_config[p]].elems :
        LET e == mig.heap[mig.cat_config[p]].elems[idx]
        IN  /\ mig.heap[e].display # "renamed"
            /\ mig' = [mig EXCEPT !.heap[e].display = "renamed",
                                  !.touched = @ \cup {p}, !.nmut = @ + 1]
    /\ UNCHANGED <<appVars, rpt, mgmtVars>>

----------------------------------------------------------------------------
(* Settings tab: deleting the current project, downloading a backup *)

\* list.remove(x): the first occurrence goes
RECURSIVE RemoveFirst(_, _)
RemoveFirst(t, x) ==
    IF t = <<>> THEN <<>>
    ELSE IF Head(t) = x THEN Tail(t) ELSE <<Head(t)>> \o RemoveFirst(Tail(t), x)

\* The settings after the confirmed deletion of project P
DeletedSettings(st, P) ==
    [st EXCEPT !.projects = RemoveFirst(@, P),
               !.items = @ \ {P}, !.locations = @ \ {P},
               !.cat_config = @ \ {P}, !.item_details = @ \ {P},
               !.sugg = {t \in @ : t[1] # P}]

\* df[df[project] != global_project]
DeletedDf(df, P) == SelectSeq(df, LAMBDA r : r.proj # P)

ManageLog(op, s, P) ==
    [NoLast EXCEPT !.op = op, !.sess = s, !.pre = store, !.S = run[s].df, !.proj = P,
                   !.oldname = del_proj_shown[s]]

\* "Delete this project" button, drawn while del_proj_confirm is False
RequestDeleteProject(s) ==
    /\ run[s].on
    /\ ~del_proj_confirm[s]
    /\ \E P \in ProjectChoices(s) :
        IF Len(run[s].settings.projects) <= 1
        THEN /\ last' = [ManageLog("delete_project", s, P) EXCEPT !.msg = "error"]
             /\ UNCHANGED <<del_proj_confirm, del_proj_shown>>
        ELSE /\ del_proj_confirm' = [del_proj_confirm EXCEPT ![s] = TRUE]
             /\ del_proj_shown' = [del_proj_shown EXCEPT ![s] = P]
             /\ last' = [ManageLog("delete_project", s, P) EXCEPT !.msg = "confirm"]
    /\ EndRun(s)
    /\ UNCHANGED <<appVarsButRunLast, backup, rpt, mig>>

\* "Yes, delete" under the warning, drawn while del_proj_confirm is True: it
\* works on global_project as the sidebar holds it in this script run
ConfirmDeleteProject(s) ==
    /\ run[s].on
    /\ del_proj_confirm[s]
    /\ \E P \in ProjectChoices(s), o \in SaveOutcomes, os \in SettingsOutcomes :
        LET st  == run[s].settings
            df  == run[s].df
            log == [ManageLog("delete_project_yes", s, P) EXCEPT !.msg = "success", !.ssave = os]
        IN  /\ settings' = SaveSettings(os, DeletedSettings(st, P))
            /\ IF df # <<>>
               THEN /\ store' = StoreAfterSave(o, DeletedDf(df, P))
                    /\ cache' = CacheAfterSave(o, cache)
                    /\ last' = [log EXCEPT !.saved = SaveReturnsTrue(o), !.out = o,
                                           !.new = DeletedDf(df, P)]
               ELSE /\ o = "ok"
                    /\ UNCHANGED <<store, cache>>
                    /\ last' = log
    /\ del_proj_confirm' = [del_proj_confirm EXCEPT ![s] = FALSE]
    /\ del_proj_shown' = [del_proj_shown EXCEPT ![s] = ""]
    /\ EndRun(s)
    /\ UNCHANGED <<mode, client, datafile, pending_del_df, confirm_del, nruns, backup, rpt, mig>>

\* "No, cancel" under the warning
CancelDeleteProject(s) ==
    /\ run[s].on
    /\ del_proj_confirm[s]
    /\ \E P \in ProjectChoices(s) : last' = ManageLog("delete_project_no", s, P)
    /\ del_proj_confirm' = [del_proj_confirm EXCEPT ![s] = FALSE]
    /\ del_proj_shown' = [del_proj_shown EXCEPT ![s] = ""]
    /\ EndRun(s)
    /\ UNCHANGED <<appVarsButRunLast, backup, rpt, mig>>

\* The entry of the backup select box for the whole system
AllProjects == "all_projects"

\* create_zip_backup(target_project): finance_data.csv and finance_settings.json
\* from the table and the settings just loaded
create_zip_backup(target_project, df_latest, settings_latest) ==
    IF target_project # AllProjects
    THEN [kind |-> "zip",
          data |-> SelectSeq(df_latest, LAMBDA r : r.proj = target_project),
          settings |-> [projects     |-> <<target_project>>,
                        items        |-> {target_project},
                        locations    |-> {target_project},
                        cat_config   |-> {},
                        item_details |-> {target_project},
                        sugg         |-> {t \in settings_latest.sugg : t[1] = target_project}]]
    ELSE [kind |-> "zip", data |-> df_latest, settings |-> settings_latest]

\* The download button of the backup expander: the ZIP built in this script
\* run for the target chosen, from load_data() and load_settings()
DownloadBackup(s) ==
    /\ run[s].on
    /\ \E P \in ProjectChoices(s) :
       \E backup_target \in {AllProjects, P}, rd \in ReadOutcomes, rs \in SettingsReads :
        /\ backup' = [made |-> TRUE, target |-> backup_target,
                      file |-> create_zip_backup(backup_target, LoadData(rd),
                                                 LoadSettings(StoredSettings(rs))),
                      store |-> store, settings |-> settings]
        /\ cache' = CacheAfterLoad(rd)
        /\ last' = [ManageLog("backup", s, P) EXCEPT !.newname = backup_target]
    /\ EndRun(s)
    /\ UNCHANGED <<mode, client, datafile, store, settings, pending_del_df, confirm_del, nruns,
                   del_proj_confirm, del_proj_shown, rpt, mig>>

----------------------------------------------------------------------------
(* The totals of the dashboard and of the PDF report, as functions of the
   table they are given and of the project's category configuration *)

\* A category added through form_add_cat: its key is the name typed
CatAdded == "cat_added"

\* The keys of current_cat_config when the user has added a category
ReportCats == CatKeys \cup {CatAdded}

\* The type tag of a key of DEFAULT_CAT_CONFIG
DefaultType(k) ==
    DEFAULT_CAT_CONFIG[CHOOSE i \in DOMAIN DEFAULT_CAT_CONFIG : DEFAULT_CAT_CONFIG[i].key = k].type

\* current_cat_config after form_add_cat, as the type tag of every key: the
\* form offers both types for the new category
CatConfigs ==
    {[k \in ReportCats |-> IF k = CatAdded THEN t ELSE DefaultType(k)] : t \in {"expense", "income"}}

\* The totals a row can carry: the entry form keeps amounts at 0 or more, the
\* editor's quantity and price columns and a restored CSV do not
ReportTotals == {0 - 3, 0, 3}

MaxRptRows == 2

\* The rows of one project: what dash_df and the exported subset are made of
ReportRows == [proj : {DefaultProject}, cat : ReportCats, total : ReportTotals]

\* The button that exports is drawn for a non-empty dash_df only, and the year
\* and month offered are taken from its rows
ReportTables == UNION {[1..n -> ReportRows] : n \in 1..MaxRptRows}

NoDash == [shown |-> FALSE, in_total |-> 0, out_total |-> 0]
NoPdf  == [made |-> FALSE, rpt_inc |-> 0, rpt_exp |-> 0, rpt_bal |-> 0, pct |-> [c \in {} |-> 0]]

\* f"{pct:.1f}" of part / whole * 100 for a positive whole, in tenths of a percent
Percent(part, whole) == (2000 * part + whole) \div (2 * whole)

\* part / whole * 100 to one decimal for any whole but 0
Ratio(part, whole) == IF whole > 0 THEN Percent(part, whole) ELSE Percent(0 - part, 0 - whole)

\* The guard tested against zero only
PctNonZero(total, rpt_exp) == IF rpt_exp # 0 THEN Ratio(total, rpt_exp) ELSE 0

\* pct = (row[total] / rpt_exp * 100) if rpt_exp > 0 else 0
Pct(total, rpt_exp) == IF rpt_exp > 0 THEN Percent(total, rpt_exp) ELSE 0

\* The rows of the expense side of generate_pdf_report
ExpenseRows(df) == SelectSeq(df, LAMBDA r : r.cat # CatIncome)

\* exp_summary: the total of every category that has a row on the expense side
exp_summary(df) ==
    [c \in {ExpenseRows(df)[i].cat : i \in DOMAIN ExpenseRows(df)} |->
        SumTotal(SelectSeq(ExpenseRows(df), LAMBDA r : r.cat = c))]

\* The summary and the structure table of generate_pdf_report
PdfReport(df) ==
    LET rpt_inc == SumTotal(SelectSeq(df, LAMBDA r : r.cat = CatIncome))
        rpt_exp == SumTotal(ExpenseRows(df))
    IN  [made |-> TRUE, rpt_inc |-> rpt_inc, rpt_exp |-> rpt_exp, rpt_bal |-> rpt_inc - rpt_exp,
         pct |-> [c \in DOMAIN exp_summary(df) |-> Pct(exp_summary(df)[c], rpt_exp)]]

InitReport ==
    /\ mode = "local"
    /\ client = FALSE
    /\ store = <<>>
    /\ datafile = <<>>
    /\ settings = DefaultSettings
    /\ cache = NoCache
    /\ run = [s \in Sessions |-> NotRunning]
    /\ pending_del_df = [s \in Sessions |-> [k \in CatKeys |-> <<>>]]
    /\ confirm_del = [s \in Sessions |-> {}]
    /\ last = NoLast
    /\ nruns = 0
    /\ mig = NoMigration
    /\ NoManagement
    /\ \E df \in ReportTables, cfg \in CatConfigs :
        rpt = [phase |-> "input", df |-> df, cat_config |-> cfg, dash |-> NoDash, pdf |-> NoPdf]

\* The dashboard tab draws its metrics
ShowDashboard ==
    /\ rpt.phase = "input"
    /\ ~rpt.dash.shown
    /\ rpt' = [rpt EXCEPT !.dash = Dashboard(rpt.df, DefaultProject)]
    /\ UNCHANGED <<appVars, mig, mgmtVars>>

\* The export button: generate_pdf_report(rpt_df, ...)
GeneratePdfReport ==
    /\ rpt.phase = "input"
    /\ ~rpt.pdf.made
    /\ rpt' = [rpt EXCEPT !.pdf = PdfReport(rpt.df)]
    /\ UNCHANGED <<appVars, mig, mgmtVars>>

NextReport == ShowDashboard \/ GeneratePdfReport

SpecReport == InitReport /\ [][NextReport]_vars


\* What a session's script run can end with
Handler(s) ==
    \/ Finish(s)
    \/ RefreshData(s)
    \/ AppendEntry(s)
    \/ SubmitUpdate(s)
    \/ SubmitDelete(s)
    \/ ConfirmYes(s)
    \/ ConfirmNo(s)
    \/ Restore(s)
    \/ RenameProject(s)

\* One user: the interactions of a single session
Next ==
    \/ Rerun(1)
    \/ Handler(1)
    \/ SettingsHandler(1)
    \/ CacheExpire

Spec == Init /\ [][Next]_vars

\* Two users: the script runs of session 1, who does anything, interleave
\* with those of session 2, who only adds entries
NextRace ==
    \/ \E s \in Sessions : Rerun(s)
    \/ Handler(1)
    \/ Finish(2)
    \/ AppendEntry(2)
    \/ CacheExpire

SpecRace == Init /\ [][NextRace]_vars

\* load_settings on every parsed blob, followed by edits of single projects
InitMigrate ==
    /\ mig \in ParsedBlobs
    /\ mode = "local"
    /\ client = FALSE
    /\ store = <<>>
    /\ datafile = <<>>
    /\ settings = DefaultSettings
    /\ cache = NoCache
    /\ run = [s \in Sessions |-> NotRunning]
    /\ pending_del_df = [s \in Sessions |-> [k \in CatKeys |-> <<>>]]
    /\ confirm_del = [s \in Sessions |-> {}]
    /\ last = NoLast
    /\ nruns = 0
    /\ rpt = NoReport
    /\ NoManagement

NextMigrate ==
    \/ MigrateOnLoad
    \/ \E p \in ProjectNames : AppendCategory(p)
    \/ \E p \in ProjectNames : SetDisplay(p)

SpecMigrate == InitMigrate /\ [][NextMigrate]_vars

\* A system of two projects with a record each, as a restored backup leaves
\* it: local mode, or cloud mode with a client
InitManage ==
    /\ mode \in {"cloud", "local"}
    /\ client = (mode = "cloud")
    /\ store = ZipFile.data
    /\ datafile = <<>>
    /\ settings = ZipFile.settings
    /\ cache = NoCache
    /\ run = [s \in Sessions |-> NotRunning]
    /\ pending_del_df = [s \in Sessions |-> [k \in CatKeys |-> <<>>]]
    /\ confirm_del = [s \in Sessions |-> {}]
    /\ last = NoLast
    /\ nruns = 0
    /\ mig = NoMigration
    /\ rpt = NoReport
    /\ NoManagement

NextManage ==
    \/ Rerun(1)
    \/ RequestDeleteProject(1)
    \/ ConfirmDeleteProject(1)
    \/ CancelDeleteProject(1)
    \/ DownloadBackup(1)
    \/ Restore(1)

SpecManage == InitManage /\ [][NextManage]_vars


\* ---------------------------------------------------------------------------
\* Properties. They read the log of the last handler: the store before the
\* write (last.pre), the df the session computed from (last.S), the selection,
\* the edited table and the message shown.
\* ---------------------------------------------------------------------------

\* a clear number for a cell: a blank counts as 0
AsNumber(v) == IF v = Blank THEN 0 ELSE v

\* the record lies in the selection the last handler ran under
InSelection(r) ==
    /\ r.proj = last.proj
    /\ r.cat = last.cat
    /\ r.date \div 100 = last.year
    /\ (last.month = WholeYear \/ r.date = last.month)

\* the records of a table outside the selection, in order
Outside(t) == SelectSeq(t, LAMBDA r : ~InSelection(r))

\* the records of a table inside the selection, in order
Target(t) == SelectSeq(t, LAMBDA r : InSelection(r))

\* the last handler was the update button or a confirmed delete and it wrote
ReplaceSucceeded ==
    /\ last.op \in {"update", "delete_yes"}
    /\ last.saved
    /\ last.msg = "success"

\* the edited rows the last handler writes back
Survivors ==
    IF last.op = "update" THEN last.edited
    ELSE SelectSeq(last.edited, LAMBDA e : e.del = "no")

\* the date of an edited row still lies in the selection
DateInSelection(e) ==
    /\ e.date \div 100 = last.year
    /\ (last.month = WholeYear \/ e.date = last.month)

\* C1 as stated: after a successful update or confirmed delete the multiset of
\* records outside the selection is the same as before the operation.
C1_FrameAsStated ==
    ReplaceSucceeded => SameBag(Outside(store), Outside(last.S))

\* C1 amended: after a successful update or confirmed delete every record of
\* the session's ledger outside the selection is still persisted, unchanged
\* and as many times; the multiset of records outside the selection is the
\* same as before when every written-back row keeps its date in the selection.
C1_Frame ==
    ReplaceSucceeded =>
        /\ \A r \in Range(last.S) :
              ~InSelection(r) => Count(store, r) >= Count(last.S, r)
        /\ (\A i \in DOMAIN Survivors : DateInSelection(Survivors[i]))
              => SameBag(Outside(store), Outside(last.S))

\* C1 case: an update wrote while the ledger held a record of another
\* category, and the edited row stayed in the selection
C1_Witness ==
    /\ ReplaceSucceeded
    /\ last.op = "update"
    /\ Outside(last.S) # <<>>
    /\ last.edited # <<>>
    /\ \A i \in DOMAIN last.edited : DateInSelection(last.edited[i])

\* C2: for the update button and the delete flow alike, the persisted ledger
\* is the non-matching records plus exactly the edited rows whose deletion box
\* is not ticked: its size is |S| - |target| + |edited rows not ticked| and
\* every edited row that is not ticked is persisted after the kept records.
C2_Composition ==
    ReplaceSucceeded =>
        LET k == Len(Outside(last.S))
            unticked == SelectSeq(last.edited, LAMBDA e : e.del # "yes")
        IN  /\ Len(store) = Len(last.S) - Len(Target(last.S)) + Len(unticked)
            /\ \A i \in DOMAIN unticked :
                  /\ k + i \in DOMAIN store
                  /\ store[k + i].date = unticked[i].date
                  /\ store[k + i].item = unticked[i].item

\* the last handler was a successful update of the unmodified target
NoOpUpdate ==
    /\ last.op = "update"
    /\ last.saved
    /\ last.msg = "success"
    /\ last.edited = EditorTable(last.S, last.proj, last.cat,
                                 last.year, last.month, NoSearch)

\* C3 as stated: an update whose edited table is the unmodified target leaves
\* the ledger unchanged as a multiset, whatever totals and blanks are stored.
C3_NoOpAsStated ==
    NoOpUpdate => SameBag(store, last.S)

\* C3 amended: an update whose edited table is the unmodified target leaves
\* the ledger unchanged as a multiset when every target record has a numeric
\* quantity and unit price and a total equal to their product.
C3_NoOp ==
    (/\ NoOpUpdate
     /\ \A r \in Range(Target(last.S)) :
           /\ IsNum(r.qty)
           /\ IsNum(r.price)
           /\ r.total = r.qty * r.price)
    => SameBag(store, last.S)

\* C3 case: a no-op update over consistent records, one inside and one
\* outside the selection
C3_Witness ==
    /\ NoOpUpdate
    /\ Outside(last.S) # <<>>
    /\ \A r \in Range(Target(last.S)) :
          IsNum(r.qty) /\ IsNum(r.price) /\ r.total = r.qty * r.price

\* C4: while the search filter is non-empty, the update button, the delete
\* button and the delete confirmation refuse and do not write.
C4_SearchRefuses ==
    (last.op \in {"update", "delete", "delete_yes"} /\ last.kw # NoSearch)
        => (store = last.pre /\ last.msg \notin {"success", "confirm"})

\* C5: on the update path and on the delete path alike, every written-back
\* row is persisted with total = quantity * unit price, blanks counting as 0.
C5_TotalRecomputed ==
    ReplaceSucceeded =>
        LET k == Len(Outside(last.S))
        IN  \A i \in DOMAIN Survivors :
               k + i \in DOMAIN store =>
                  store[k + i].total =
                      AsNumber(Survivors[i].qty) * AsNumber(Survivors[i].price)

\* C6: after every operation that persisted records, every record of the
\* backing store has total = quantity * unit price.
C6_LedgerTotals ==
    last.saved => \A i \in DOMAIN store :
        store[i].total = AsNumber(store[i].qty) * AsNumber(store[i].price)

\* C7: after a project rename that reported success, no persisted record
\* carries the old name and the old name is gone from the project list and
\* from every per-project settings map.
C7_RenamePostcondition ==
    (last.op = "rename" /\ last.msg = "success") =>
        /\ \A i \in DOMAIN store : store[i].proj # last.proj
        /\ \A i \in DOMAIN settings.projects : settings.projects[i] # last.proj
        /\ last.proj \notin settings.items
        /\ last.proj \notin settings.locations
        /\ last.proj \notin settings.cat_config
        /\ last.proj \notin settings.item_details

\* C8: after every successful Append or Replace, in cloud and in local mode,
\* no cached copy of the ledger older than the write remains.
C8_CacheInvalidated ==
    last.saved => (cache.valid => cache.df = store)

\* C9: a successful Append leaves the ledger as it was before plus the new
\* record as its last row.
C9_AppendAddsOne ==
    (last.op = "append" /\ last.saved) =>
        store = Append(last.pre, last.rec[1])

\* a record the last handler itself wrote
WrittenByLast(r) ==
    IF last.op = "rename"
    THEN /\ r.proj = last.newname
         /\ [r EXCEPT !.proj = last.proj] \in Range(last.S)
    ELSE /\ r.proj = last.proj
         /\ r.cat = last.cat
         /\ \E i \in DOMAIN Survivors :
               r.date = Survivors[i].date /\ r.item = Survivors[i].item

\* C10: a Replace (update, confirmed delete, project rename) writes what the
\* session computed from the ledger it loaded: a record another session
\* stored since then is gone afterwards, and in local mode, where the write
\* cannot fail, the session is told the operation succeeded.
C10_LostUpdate ==
    /\ (last.op \in {"update", "delete_yes", "rename"} /\ last.saved) =>
          \A r \in Range(last.pre) :
              (r \notin Range(last.S) /\ ~WrittenByLast(r)) => r \notin Range(store)
    /\ (/\ last.op \in {"update", "delete_yes"}
        /\ mode = "local"
        /\ last.pre # last.S
        /\ ~(last.op = "update" /\ last.kw # NoSearch)) =>
          last.msg = "success"

\* C10 case: in cloud mode session 1 updated from a ledger loaded before
\* another session appended a record; the write succeeded and the record is
\* gone
C10_Witness ==
    /\ mode = "cloud"
    /\ last.op = "update"
    /\ last.sess = 1
    /\ last.saved
    /\ last.msg = "success"
    /\ last.S # <<>>
    /\ \E r \in Range(last.pre) :
          /\ last.pre = Append(last.S, r)
          /\ r \notin Range(store)

\* the last handler attempted a whole-table Replace and the write raised
ReplaceFailed ==
    /\ last.op \in {"update", "delete_yes", "restore", "rename", "rename_item"}
    /\ last.out \in {"fail_open", "fail_update"}

\* C11: after a Replace whose write failed, the backing store holds either the
\* complete previous content or the complete new content, never something in
\* between such as an emptied sheet, and the read cache agrees with the store.
C11_NoPartialApply ==
    ReplaceFailed =>
        /\ store = last.pre \/ store = last.new
        /\ cache.valid => cache.df = store

\* the last handler attempted to write the ledger and nothing was written
WriteFailed == last.out \notin {"none", "ok"}

\* C12: whenever an Append or a Replace does not write, the user sees an
\* error and the enclosing operation does not report success.
C12_FailedWriteSurfaced ==
    WriteFailed => last.msg = "error"

\* the last handler called save_settings and the blob was not written
SettingsWriteFailed == last.ssave \notin {"none", "ok"}

\* C13: a failure while writing the settings blob is turned into a visible
\* notification: it is not swallowed while the calling operation reports
\* success. (The read side of load_settings swallows the same way: its
\* except branch passes and the defaults are used.)
C13_SettingsErrorsSurfaced ==
    SettingsWriteFailed => last.msg = "error"

\* C14: in cloud mode, when the remote store cannot be read (here: no client
\* could be built, so every read fails), load_data returns the empty table:
\* a run never works on rows that did not come from the remote store.
C14_FailedReadIsEmpty ==
    (mode = "cloud" /\ ~client) =>
        \A s \in Sessions : run[s].on => run[s].df = <<>>

\* the last handler renamed a suggested item or a category display label
CascadingRename == last.op \in {"rename_item", "rename_cat"}

\* C15: after a suggested item (or a category display label) is renamed, a
\* whole-table Replace has been performed, and no ledger record whose item
\* equalled the old string still holds it.
C15_CascadeReachesLedger ==
    CascadingRename =>
        /\ last.out = "ok"
        /\ last.op = "rename_item" =>
              \A i \in DOMAIN store : store[i].item # last.oldname

\* the last handler was a project rename whose settings write went through
\* and whose ledger Replace did not
RenameHalfDone ==
    /\ last.op = "rename"
    /\ last.ssave = "ok"
    /\ last.out \notin {"none", "ok"}

\* C16: after a project rename whose settings write succeeded and whose ledger
\* Replace failed, the settings hold the new name, every ledger record of the
\* project is still there under the old name, and no record carries the new
\* name.
C16_RenameDisagreement ==
    RenameHalfDone =>
        /\ last.newname \in Range(settings.projects)
        /\ \A r \in Range(last.pre) :
              r.proj = last.proj => Count(store, r) = Count(last.pre, r)
        /\ \A i \in DOMAIN store : store[i].proj # last.newname

\* the rows the editor of the last handler's selection showed
ShownRows == CatDf(last.S, last.proj, last.cat, last.year, last.month, last.kw)

\* C18: pressing the delete button when no row of the edited subset has its
\* deletion box ticked shows a warning, sets no pending-deletion or
\* confirmation state, and leaves the backing store and the settings unchanged.
C18_DeleteNothingMarked ==
    [][ (last'.op = "delete" /\ last'.ticks = {}) =>
            /\ last'.msg = "warning"
            /\ UNCHANGED <<store, settings, pending_del_df, confirm_del>> ]_vars

\* the delete button was pressed over an editor that showed rows, none of
\* them ticked, and only the warning came of it
C18_Witness ==
    /\ last.op = "delete"
    /\ last.ticks = {}
    /\ ShownRows # <<>>
    /\ last.msg = "warning"
    /\ store = last.pre
    /\ confirm_del[last.sess] = {}

\* C19: the project list of the settings holds no name twice.
C19_UniqueProjects ==
    \A i, j \in DOMAIN settings.projects :
        i # j => settings.projects[i] # settings.projects[j]

\* the last handler appended, successfully, one income record to a project
\* of which the ledger held no record
IncomeAppendedToEmptyProject ==
    /\ last.op = "append"
    /\ last.out = "ok"
    /\ last.rec[1].cat = CatIncome
    /\ \A r \in Range(last.pre) : r.proj # last.proj

\* C20: a project added through the add-project form is in the project list,
\* and after one income record with quantity q and price p is appended to a
\* project without records, the next script run's dashboard for that project
\* shows total income q * p and total expense 0.
C20_NewProjectDashboard ==
    [][ /\ last'.op = "add_project" =>
              last'.newname \in Range(settings'.projects)
        /\ (IncomeAppendedToEmptyProject /\ ~run[1].on /\ run'[1].on) =>
              Dashboard(run'[1].df, last.proj) =
                  [shown |-> TRUE,
                   in_total |-> last.rec[1].qty * last.rec[1].price,
                   out_total |-> 0] ]_vars

\* C17: after load_settings every project of the project list has a
\* cat_config entry, whatever shape was stored; when the stored shape was the
\* flat list, the entries are exactly those of the listed projects and each
\* equals the original list; and an edit of one project's list or of one of
\* its entries leaves every other project's entry as it was loaded.
C17_Migration ==
    mig.phase = "loaded" =>
        /\ Range(MigratedProjects(mig)) \subseteq DOMAIN mig.cat_config
        /\ mig.shape = "list" =>
              /\ DOMAIN mig.cat_config = Range(MigratedProjects(mig))
              /\ \A p \in DOMAIN mig.cat_config : mig.loaded[p] = mig.old
        /\ \A q \in DOMAIN mig.cat_config \ mig.touched :
              ListValue(mig.heap, mig.cat_config[q]) = mig.loaded[q]

\* an old flat list of two categories was migrated for two projects, and one
\* project's list has since got a category and a new label while the other
\* still equals the original
C17_Witness ==
    /\ mig.phase = "loaded"
    /\ mig.shape = "list"
    /\ Len(mig.old) = 2
    /\ Cardinality(DOMAIN mig.cat_config) = 2
    /\ mig.nmut = 2
    /\ \E p \in mig.touched, q \in DOMAIN mig.cat_config \ mig.touched :
          /\ Len(ListValue(mig.heap, mig.cat_config[p])) = 3
          /\ \E i \in 1..2 : ListValue(mig.heap, mig.cat_config[p])[i].display = "renamed"
          /\ ListValue(mig.heap, mig.cat_config[q]) = mig.old


\* C21 as stated: in the structure table of the PDF report the percentage of
\* every expense category is 0 when the total expense of the exported subset
\* is 0, and the category total over that total times 100 otherwise.
C21_PctZeroOnlyAtZero ==
    rpt.phase = "input" /\ rpt.pdf.made =>
        \A c \in DOMAIN rpt.pdf.pct :
            rpt.pdf.pct[c] = IF rpt.pdf.rpt_exp = 0 THEN 0
                             ELSE Ratio(exp_summary(rpt.df)[c], rpt.pdf.rpt_exp)

\* C21: in the structure table of the PDF report the percentage of every
\* expense category is 0 when the total expense of the exported subset is 0
\* or negative, and otherwise the category total over the total expense of
\* the same subset times 100; the division is never made by zero.
C21_PctOfSubsetTotal ==
    rpt.phase = "input" /\ rpt.pdf.made =>
        /\ rpt.pdf.rpt_exp = SumTotal(SelectSeq(rpt.df, LAMBDA r : r.cat # CatIncome))
        /\ \A c \in DOMAIN rpt.pdf.pct :
            rpt.pdf.pct[c] = IF rpt.pdf.rpt_exp <= 0 THEN 0
                             ELSE Ratio(exp_summary(rpt.df)[c], rpt.pdf.rpt_exp)

\* A report over two expense categories that share a positive total
C21_Witness ==
    /\ rpt.phase = "input" /\ rpt.pdf.made
    /\ rpt.pdf.rpt_exp > 0
    /\ \E c \in DOMAIN rpt.pdf.pct : rpt.pdf.pct[c] = 500

\* A report over a subset whose total expense is 0 while a category's is not
C21_ZeroTotalReported ==
    /\ rpt.phase = "input" /\ rpt.pdf.made
    /\ rpt.pdf.rpt_exp = 0
    /\ \E c \in DOMAIN rpt.pdf.pct : exp_summary(rpt.df)[c] # 0

\* the rows at the end of a table, n of them
LastRows(t, n) == SubSeq(t, Len(t) - n + 1, Len(t))

\* C22: after a successful update or confirmed delete every row persisted from
\* the edited subset, a row added in the editor included, carries the category
\* key of the selection as its category and the selected project as its project.
C22_FixedFieldsForced ==
    ReplaceSucceeded /\ last.out = "ok" =>
        /\ Len(store) >= Len(Survivors)
        /\ \A i \in DOMAIN Survivors :
            LET r == LastRows(store, Len(Survivors))[i]
            IN  /\ r.proj = last.proj
                /\ r.cat = last.cat
                /\ r.date = Survivors[i].date
                /\ r.item = Survivors[i].item

\* An update that wrote a row added in the editor
C22_Witness ==
    /\ ReplaceSucceeded /\ last.out = "ok"
    /\ last.op = "update"
    /\ \E i \in DOMAIN last.edited : last.edited[i].del = "none"

\* the last handler was a confirmed delete that wrote, from a df that was the stored ledger
ConfirmedDelete ==
    /\ last.op = "delete_yes"
    /\ ReplaceSucceeded /\ last.out = "ok"
    /\ last.S = last.pre

\* a row of the pending table shows the record r of the category as stored
ShowsRecord(e, r) ==
    /\ e.del # "none"
    /\ r.cat = last.cat
    /\ e.date = r.date /\ e.item = r.item /\ e.qty = r.qty /\ e.price = r.price

\* the pending table shows records of the ledger and nothing else was typed into it
PendingUnedited ==
    \A i \in DOMAIN last.edited : \E j \in DOMAIN last.S : ShowsRecord(last.edited[i], last.S[j])

TickedRows == {i \in DOMAIN last.edited : last.edited[i].del = "yes"}

\* C23: a confirmed delete is applied to the selection its table was captured
\* under: with a pending table that shows stored records unedited, every
\* record not ticked in it, whatever its project, year and month, is still in
\* the ledger with its project, category, date and item, and the ledger is
\* shorter by the number of ticked rows.
C23_ConfirmAppliesToCapture ==
    ConfirmedDelete /\ PendingUnedited =>
        /\ \A j \in DOMAIN last.S :
            (\A i \in TickedRows : ~ShowsRecord(last.edited[i], last.S[j])) =>
                \E k \in DOMAIN store :
                    /\ store[k].proj = last.S[j].proj /\ store[k].cat = last.S[j].cat
                    /\ store[k].date = last.S[j].date /\ store[k].item = last.S[j].item
        /\ Len(store) = Len(last.S) - Cardinality(TickedRows)

\* the total of the rows of df whose category carries the type tag in cfg
TotalOfType(df, cfg, tag) == SumTotal(SelectSeq(df, LAMBDA r : cfg[r.cat] = tag))

\* C25: income is classified by the type tag: the rows of every category of
\* type income, a category added through the form included, make up the income
\* total of the dashboard and of the PDF summary, and the rows of every
\* category of type expense the expense total.
C25_IncomeByTypeTag ==
    rpt.phase = "input" =>
        /\ rpt.dash.shown =>
            /\ rpt.dash.in_total = TotalOfType(rpt.df, rpt.cat_config, "income")
            /\ rpt.dash.out_total = TotalOfType(rpt.df, rpt.cat_config, "expense")
        /\ rpt.pdf.made =>
            /\ rpt.pdf.rpt_inc = TotalOfType(rpt.df, rpt.cat_config, "income")
            /\ rpt.pdf.rpt_exp = TotalOfType(rpt.df, rpt.cat_config, "expense")

\* C28: a submission of the add-project form with a name not yet in the list
\* does not end in an unhandled error, and once its settings write went
\* through the persisted settings hold the name in the project list and an
\* entry for it in the item map, the location map and cat_config.
C28_AddProjectCompletes ==
    last.op = "add_project" =>
        /\ last.msg # "exception"
        /\ last.ssave = "ok" =>
            /\ last.newname \in Range(settings.projects)
            /\ last.newname \in settings.items
            /\ last.newname \in settings.locations
            /\ last.newname \in settings.cat_config

\* C24: the project deletion removes the project it was requested for, also
\* when the current project was switched between the request and the
\* confirmation, and the project list is never left empty.
C24_DeletesRequestedProject ==
    /\ settings.projects # <<>>
    /\ last.op = "delete_project_yes" => last.proj = last.oldname

\* the records of project P in a table, in order
OfProject(t, P) == SelectSeq(t, LAMBDA r : r.proj = P)

\* the records of the other projects in a table, in order
OfOthers(t, P) == SelectSeq(t, LAMBDA r : r.proj # P)

\* the ZIP at hand holds what was stored, at the scope chosen, when it was made
BackupFaithful ==
    /\ backup.made
    /\ IF backup.target = AllProjects
       THEN /\ backup.file.data = backup.store
            /\ backup.file.settings = LoadSettings(backup.settings)
       ELSE /\ backup.file.data = OfProject(backup.store, backup.target)
            /\ backup.file.settings.sugg = {t \in backup.settings.sugg : t[1] = backup.target}

\* this step restores the ZIP at hand and both of its writes go through
RestoresBackup ==
    /\ last'.op = "restore"
    /\ last'.new = backup.file.data
    /\ last'.out = "ok" /\ last'.ssave = "ok"
    /\ settings' = backup.file.settings

\* C26: restoring a backup undoes what happened since it was taken, at the
\* backup's scope: after a full backup is restored the ledger and the settings
\* are those stored when it was taken; after a single-project backup is
\* restored that project's records are those stored when it was taken, and
\* the records, the list entry and the item map of every other project are
\* as before the restore.
C26_RestoreInvertsBackup ==
    [][ BackupFaithful /\ RestoresBackup =>
            IF backup.target = AllProjects
            THEN /\ store' = backup.store
                 /\ LoadSettings(settings') = LoadSettings(backup.settings)
            ELSE /\ OfProject(store', backup.target) = OfProject(backup.store, backup.target)
                 /\ OfOthers(store', backup.target) = OfOthers(store, backup.target)
                 /\ \A Q \in Range(settings.projects) : Q \in Range(settings'.projects)
                 /\ \A Q \in settings.items : Q \in settings'.items ]_vars

\* this step is a handler of session 1 that ran on settings other than the
\* stored ones: load_settings had gone on with its defaults after a failed read
RanOnFallbackSettings ==
    /\ mode = "cloud" /\ client
    /\ run[1].on /\ ~run'[1].on
    /\ run[1].settings # LoadSettings(settings)

\* C27: a failed read never makes a later write of the same script run
\* replace the remote settings by content derived from the fallback: every
\* project stored remotely before the write, but the one the handler renames
\* or deletes, is still stored after it.
C27_FallbackNeverWrittenBack ==
    [][ RanOnFallbackSettings /\ last'.op # "restore" =>
            \A Q \in Range(settings.projects) \ {last'.proj} :
                Q \in Range(settings'.projects) ]_vars

====
